---- MODULE Spec2Model ----
(***************************************************************************)
(* A model of dhcpkit_looking_glass: the option handler that hands DHCPv6  *)
(* transaction bundles to a database-writer process through a bounded      *)
(* queue (two generations of that writer live in the repository), and the  *)
(* Kafka command that writes the same information through the Django ORM.  *)
(*                                                                         *)
(* Text is modelled as a sequence of code points (48 = '0', 120 = 'x',     *)
(* 58 = ':'), raw option data as a sequence of octets 0..255.              *)
(***************************************************************************)
EXTENDS Integers, Sequences, FiniteSets

VARIABLES
    variant,        \* which code is deployed: "dhcpkit", "toplevel" or "kafka"
    queue,          \* DatabaseProcess.queue: the items in flight, head first
    worker_pc,      \* DatabaseProcess.run: "start", "get", "proc", "done", "dead"
    item,           \* the item run() has dequeued and is handling
    clients,        \* the committed rows of the worker's clients table
    del_pc,         \* LookingGlassOptionHandler.__del__: "none", "put", "join", "done"
    log,            \* the warning and error records the logger has received
    phase,          \* the transaction the server is handling and how far it is
    foreign,        \* the items other code has put on the queue
    accepted,       \* history: ids of the items the queue accepted, in order
    handled,        \* history: ids of the items run() finished handling, in order
    servers,        \* Django table Server
    kclients,       \* Django table Client
    transactions,   \* Django table Transaction
    next_pk,        \* the next AutoField value of the Django tables
    max_transactions,      \* app_settings.MAX_TRANSACTIONS (0: not configured)
    max_transaction_age,   \* app_settings.MAX_TRANSACTION_AGE (0: not configured)
    consumed,       \* number of Kafka messages the command has consumed
    written,        \* history: the (client, server, request_ts) update_or_create wrote
    raw,            \* a message handed to the identifier extraction on its own
    rendered,       \* what the extraction made of raw, and which code made it
    worker2_pc,     \* the worker of a second handler constructed for the same file
    del_again,      \* __del__ has been entered a second time
    phase2,         \* a second server thread calling pre() and post()
    store,          \* the store file: columns of clients, USER_VERSION, number of rows
    startup,        \* the statement a starting worker is at, and the store it found
    arg,            \* what a function of the web models or of the command is called on
    result,         \* what that function returned, or that it raised
    cmd             \* Command.handle: where it is, the stopping flag, the topic's backlog

vars == <<variant, queue, worker_pc, item, clients, del_pc, log, phase, foreign,
          accepted, handled, servers, kclients, transactions, next_pk,
          max_transactions, max_transaction_age, consumed, written,
          raw, rendered, worker2_pc, del_again, phase2, store, startup,
          arg, result, cmd>>

pipeline_vars == <<queue, worker_pc, item, clients, del_pc, log, phase, foreign,
                   accepted, handled>>

kafka_vars == <<servers, kclients, transactions, next_pk, consumed, written>>

config_vars == <<variant, max_transactions, max_transaction_age>>

extraction_vars == <<raw, rendered>>

reload_vars == <<worker2_pc, del_again>>

startup_vars == <<store, startup>>

\* what the server with one handler, one thread and a running worker leaves alone
scenario_vars == <<raw, rendered, worker2_pc, del_again, phase2, store, startup,
                   arg, result, cmd>>

call_vars == <<arg, result>>

(***************************************************************************)
(* Bounds of the model.                                                    *)
(***************************************************************************)
\* The model's queue capacity, standing for Queue(maxsize=1000).
MaxSize == 2
\* Number of DHCP transactions the server handles (each: one pre, one post).
MaxTxn == 1
\* Number of Kafka messages consumed.
MaxMsg == 2
\* The largest max-count limit that is configured.
MaxCount == 2
\* The largest max-age limit that is configured.
MaxAge == 1
\* The longest raw interface-id and remote-id handed to the extraction.
MaxLen == 4
\* The most rows a store holds while its schema is followed.
MaxRows == 2
\* The longest broker name given to the command.
MaxBroker == 4

NULL == 0

(***************************************************************************)
(* Text helpers.                                                           *)
(***************************************************************************)
\* codecs.encode(data, 'hex').decode('ascii'): one lower-case hex digit
HexDigit(n) == IF n < 10 THEN 48 + n ELSE 87 + n

RECURSIVE HexEncode(_)
HexEncode(data) ==
    IF data = <<>> THEN <<>>
    ELSE <<HexDigit(Head(data) \div 16), HexDigit(Head(data) % 16)>>
             \o HexEncode(Tail(data))

\* a decode that accepts every octet, as bytes.decode('latin-1') does
IsLatin1(data) == \A i \in 1..Len(data) : data[i] < 256

\* bytes.decode('ascii') raises UnicodeDecodeError (a ValueError) on an octet >= 128
IsAscii(data) == \A i \in 1..Len(data) : data[i] < 128

\* '{}'.format(n) of a non-negative integer
RECURSIVE DecStr(_)
DecStr(n) == IF n < 10 THEN <<48 + n>> ELSE DecStr(n \div 10) \o <<48 + (n % 10)>>

\* big-endian encoding of n in w octets
RECURSIVE BigEndian(_, _)
BigEndian(n, w) == IF w = 0 THEN <<>> ELSE BigEndian(n \div 256, w - 1) \o <<n % 256>>

Prefix0x == <<48, 120>>

(***************************************************************************)
(* The messages the server sees.  A bundle has a request with an optional  *)
(* ClientIdOption and the relay message closest to the client with an      *)
(* optional InterfaceIdOption and RemoteIdOption; hops is the length of    *)
(* incoming_relay_messages.                                                *)
(***************************************************************************)
NoOption == [present |-> FALSE]

LinkLayerDUID(hw, lla) ==
    [present |-> TRUE, duid_type |-> 3, hardware_type |-> hw, link_layer_address |-> lla]

LinkLayerTimeDUID(hw, time, lla) ==
    [present |-> TRUE, duid_type |-> 1, hardware_type |-> hw, time |-> time,
     link_layer_address |-> lla]

UnknownDUID(type, data) == [present |-> TRUE, duid_type |-> type, duid_data |-> data]

EnterpriseDUID(en, ident) ==
    [present |-> TRUE, duid_type |-> 2, enterprise_number |-> en, identifier |-> ident]

InterfaceIdOption(data) == [present |-> TRUE, interface_id |-> data]

RemoteIdOption(en, data) == [present |-> TRUE, enterprise_number |-> en, remote_id |-> data]

Bundles == <<
    \* DUID-LL on Ethernet behind a relay that reports interface-id "e0"
    [client_id |-> LinkLayerDUID(1, <<2, 171>>), hops |-> 1,
     interface_id |-> InterfaceIdOption(<<101, 48>>),
     remote_id |-> NoOption],
    \* DUID-EN, relay reports a binary interface-id and a remote-id
    [client_id |-> EnterpriseDUID(9, <<7>>), hops |-> 1,
     interface_id |-> InterfaceIdOption(<<222, 173>>),
     remote_id |-> RemoteIdOption(12, <<105>>)],
    \* a request without a ClientIdOption
    [client_id |-> NoOption, hops |-> 1,
     interface_id |-> NoOption,
     remote_id |-> NoOption]
>>

BundleIds == 1..Len(Bundles)

\* DUID.save(): the wire format of the DUID
DuidSave(d) ==
    IF d.duid_type = 3
    THEN BigEndian(3, 2) \o BigEndian(d.hardware_type, 2) \o d.link_layer_address
    ELSE IF d.duid_type = 1
    THEN BigEndian(1, 2) \o BigEndian(d.hardware_type, 2) \o BigEndian(d.time, 4)
             \o d.link_layer_address
    ELSE IF d.duid_type = 2
    THEN BigEndian(2, 2) \o BigEndian(d.enterprise_number, 4) \o d.identifier
    ELSE BigEndian(d.duid_type, 2) \o d.duid_data

HasAttr(d, name) == name \in DOMAIN d

\* ':'.join of the two-digit groups of a hex string
RECURSIVE ColonJoin(_)
ColonJoin(hex) ==
    IF Len(hex) <= 2 THEN hex
    ELSE <<hex[1], hex[2], 58>> \o ColonJoin(SubSeq(hex, 3, Len(hex)))

RenderInterfaceId(opt) ==
    IF ~opt.present THEN <<>>
    ELSE IF IsAscii(opt.interface_id) THEN opt.interface_id
    ELSE Prefix0x \o HexEncode(opt.interface_id)

RenderRemoteId(opt) ==
    IF ~opt.present THEN <<>>
    ELSE IF IsAscii(opt.remote_id)
         THEN DecStr(opt.enterprise_number) \o <<58>> \o opt.remote_id
         ELSE DecStr(opt.enterprise_number) \o <<58>> \o Prefix0x \o HexEncode(opt.remote_id)

Raised == [ok |-> FALSE]

\* dhcpkit/database_writer.py: DatabaseProcess.get_identifiers
GetIdentifiersDhcpkit(b) ==
    IF ~b.client_id.present THEN Raised
    ELSE IF b.hops = 0 THEN Raised
    ELSE [ok |-> TRUE,
          duid |-> Prefix0x \o HexEncode(DuidSave(b.client_id)),
          duid_ll |-> <<>>,
          interface_id |-> RenderInterfaceId(b.interface_id),
          remote_id |-> RenderRemoteId(b.remote_id)]

\* the duid_ll column of database_writer.py
DuidLl(d) ==
    LET lla == IF HasAttr(d, "link_layer_address") THEN d.link_layer_address ELSE <<>>
        hex == HexEncode(lla)
    IN  IF d.hardware_type = 1 THEN ColonJoin(hex)
        ELSE IF hex # <<>> THEN Prefix0x \o hex
        ELSE hex

\* database_writer.py: DatabaseProcess.get_identifiers
GetIdentifiersToplevel(b) ==
    IF ~b.client_id.present THEN Raised
    ELSE IF ~HasAttr(b.client_id, "hardware_type") THEN Raised
    ELSE IF b.hops = 0 THEN Raised
    ELSE [ok |-> TRUE,
          duid |-> Prefix0x \o HexEncode(DuidSave(b.client_id)),
          duid_ll |-> DuidLl(b.client_id),
          interface_id |-> RenderInterfaceId(b.interface_id),
          remote_id |-> RenderRemoteId(b.remote_id)]

\* an extraction that takes a missing ClientIdOption for an empty DUID
GetIdentifiersEmptyDuid(v, b) ==
    IF ~b.client_id.present
    THEN [ok |-> TRUE, duid |-> <<>>, duid_ll |-> <<>>,
          interface_id |-> RenderInterfaceId(b.interface_id),
          remote_id |-> RenderRemoteId(b.remote_id)]
    ELSE IF v = "toplevel" THEN GetIdentifiersToplevel(b) ELSE GetIdentifiersDhcpkit(b)

get_identifiers(v, b) ==
    IF v = "toplevel" THEN GetIdentifiersToplevel(b) ELSE GetIdentifiersDhcpkit(b)

\* process_kafka.py: the identifier part of Command.get_transaction_info
get_transaction_info(b) == GetIdentifiersDhcpkit(b)

(***************************************************************************)
(* The queue between the option handler and the database writer.           *)
(***************************************************************************)
\* how the histories name an item: its transaction and its stage
Id(t, stage) == [txn |-> t, stage |-> stage]

\* the None that __del__ puts on the queue
Sentinel == [kind |-> "none", id |-> Id(0, "none")]

NoItem == [kind |-> "noitem"]

Event(stage, b, t) ==
    [kind |-> "event", stage |-> stage, bundle |-> b, txn |-> t, id |-> Id(t, stage)]

\* an item that is not a (stage, bundle) pair
Junk == [kind |-> "junk", id |-> Id(0, "junk")]

\* a pair whose stage is neither 'pre' nor 'post'
OtherStage == Event("other", 1, 0)

Workers == {"dhcpkit", "toplevel"}

\* a put on a queue that was created without maxsize
PutNowaitUnbounded(q, it) == [queue |-> Append(q, it), full |-> FALSE]

\* a put that makes room by discarding the oldest item
PutNowaitEvicting(q, it) ==
    IF Len(q) < MaxSize THEN [queue |-> Append(q, it), full |-> FALSE]
    ELSE [queue |-> Append(Tail(q), it), full |-> FALSE]

\* Queue.put(item, block=False): raises Full when maxsize items are queued
PutNowait(q, it) ==
    IF Len(q) < MaxSize THEN [queue |-> Append(q, it), full |-> FALSE]
    ELSE [queue |-> q, full |-> TRUE]

\* a get that takes the newest item
QueueGetNewest(q) == [item |-> q[Len(q)], queue |-> SubSeq(q, 1, Len(q) - 1)]

\* a get that hands out the oldest item and leaves it on the queue
QueuePeek(q) == [item |-> Head(q), queue |-> q]

\* Queue.get(): the oldest item and the rest
QueueGet(q) == [item |-> Head(q), queue |-> Tail(q)]

(***************************************************************************)
(* The clients table of the database writer.  last_request stands for the  *)
(* columns one pre UPDATE sets together (type, message or options,         *)
(* timestamp, link-local address or transaction id), last_response for the *)
(* columns one post UPDATE sets; their value is the transaction they were  *)
(* taken from, NULL when never set.                                        *)
(***************************************************************************)
Key(r) == <<r.duid, r.interface_id, r.remote_id>>

Matching(tbl, k) == {i \in 1..Len(tbl) : Key(tbl[i]) = k}

\* a plain INSERT on a table without the UNIQUE constraint
InsertAlways(tbl, ids) ==
    Append(tbl, [duid |-> ids.duid, duid_ll |-> ids.duid_ll,
                 interface_id |-> ids.interface_id, remote_id |-> ids.remote_id,
                 last_request |-> NULL, last_response |-> NULL])

\* INSERT OR IGNORE INTO clients(...) under UNIQUE(duid, interface_id, remote_id)
InsertOrIgnore(tbl, ids) ==
    IF Matching(tbl, Key(ids)) # {} THEN tbl
    ELSE Append(tbl, [duid |-> ids.duid, duid_ll |-> ids.duid_ll,
                      interface_id |-> ids.interface_id, remote_id |-> ids.remote_id,
                      last_request |-> NULL, last_response |-> NULL])

\* an UPDATE without its WHERE clause
UpdateClientNoWhere(tbl, ids, stage, t) ==
    [i \in 1..Len(tbl) |->
        IF stage = "pre" THEN [tbl[i] EXCEPT !.last_request = t]
        ELSE [tbl[i] EXCEPT !.last_response = t]]

\* UPDATE clients SET last_request...=? / last_response...=? WHERE duid=? AND ...
UpdateClient(tbl, ids, stage, t) ==
    [i \in 1..Len(tbl) |->
        IF Key(tbl[i]) # Key(ids) THEN tbl[i]
        ELSE IF stage = "pre" THEN [tbl[i] EXCEPT !.last_request = t]
        ELSE [tbl[i] EXCEPT !.last_response = t]]

\* DatabaseProcess.process_item: the uncommitted table it leaves behind and
\* whether it raised.  fault names the statement at which the store fails.
process_item(v, tbl, it, fault) ==
    LET ids == get_identifiers(v, Bundles[it.bundle])
    IN  IF ~ids.ok \/ fault = "interrupt" THEN [tbl |-> tbl, raised |-> TRUE]
        ELSE IF fault = "insert" THEN [tbl |-> tbl, raised |-> FALSE]
        ELSE IF it.stage \notin {"pre", "post"}
             THEN [tbl |-> InsertOrIgnore(tbl, ids), raised |-> FALSE]
        ELSE IF fault = "update"
             THEN [tbl |-> InsertOrIgnore(tbl, ids), raised |-> FALSE]
        ELSE [tbl |-> UpdateClient(InsertOrIgnore(tbl, ids), ids, it.stage, it.txn),
              raised |-> FALSE]

\* a rollback that undoes earlier commits as well
RunItemRollbackAll(v, tbl, it, fault) ==
    IF it.kind # "event" THEN [clients |-> <<>>, outcome |-> "rolledback"]
    ELSE LET r == process_item(v, tbl, it, fault)
         IN  IF r.raised \/ fault = "commit"
             THEN [clients |-> <<>>, outcome |-> "rolledback"]
             ELSE [clients |-> r.tbl, outcome |-> "committed"]

\* the body of the loop of DatabaseProcess.run for one dequeued item:
\* unpack, process_item, commit; rollback when anything was raised
RunItem(v, tbl, it, fault) ==
    IF it.kind # "event" THEN [clients |-> tbl, outcome |-> "rolledback"]
    ELSE LET r == process_item(v, tbl, it, fault)
         IN  IF r.raised \/ fault = "commit"
             THEN [clients |-> tbl, outcome |-> "rolledback"]
             ELSE [clients |-> r.tbl, outcome |-> "committed"]

\* a loop that stops at the first item that fails
AfterItemBreaks(outcome) == IF outcome = "rolledback" THEN "done" ELSE "get"

\* a loop that lets what an item raised end the process
AfterItemUncaught(outcome) == IF outcome = "committed" THEN "get" ELSE "dead"

\* where run() continues after an item: the loop has no exit but the sentinel
AfterItem(outcome) == "get"

\* a loop without the test for the end
AfterGetNoBreak(it) == "proc"

\* where run() continues after it dequeued the item
AfterGet(it) == IF it = Sentinel THEN "done" ELSE "proc"

\* the points at which handling an item can fail in the store or be interrupted
Faults(v, it) ==
    {"none", "interrupt"}
    \cup (IF it.kind = "event" /\ get_identifiers(v, Bundles[it.bundle]).ok
          THEN {"insert", "commit"} \cup
               (IF it.stage \in {"pre", "post"} THEN {"update"} ELSE {})
          ELSE {})

StorageFaults == {"insert", "update", "commit"}

(***************************************************************************)
(* Initial state: the handler has been constructed and has started its     *)
(* worker, or the Kafka command has been started.                          *)
(***************************************************************************)
InitServer ==
    /\ variant \in Workers \cup {"kafka"}
    /\ queue = <<>>
    /\ worker_pc = "start"
    /\ item = NoItem
    /\ clients = <<>>
    /\ del_pc = "none"
    /\ log = {}
    /\ phase = [txn |-> 1, step |-> "new", bundle |-> 0]
    /\ foreign = {}
    /\ accepted = <<>>
    /\ handled = <<>>
    /\ servers = {}
    /\ kclients = {}
    /\ transactions = {}
    /\ next_pk = [server |-> 1, client |-> 1, transaction |-> 1]
    /\ max_transactions \in IF variant = "kafka" THEN {0, 1, MaxCount} ELSE {0}
    /\ max_transaction_age \in IF variant = "kafka" THEN {0, MaxAge} ELSE {0}
    /\ consumed = 0
    /\ written = {}

\* no message is handed to the extraction on its own
NoInput == [present |-> FALSE]

NotRendered == [by |-> "none"]

NoExtraction == raw = NoInput /\ rendered = NotRendered

\* one handler only, whose __del__ has not run twice
NoReload == worker2_pc = "none" /\ del_again = FALSE

\* the server calls pre() and post() from one thread only
NoThread == [txn |-> 0, step |-> "none", bundle |-> 0]

\* the store file is not followed statement by statement
NoStore == [columns |-> {}, user_version |-> 0, rows |-> 0]

NoStartup == store = NoStore /\ startup = [pc |-> "none"]

\* no function is called on its own
NoCall == arg = [of |-> "none"] /\ result = [by |-> "none"]

\* the command's handle() is not followed step by step
NoCommand == cmd = [pc |-> "none"]

Init ==
    /\ InitServer /\ NoExtraction /\ NoReload /\ phase2 = NoThread /\ NoStartup
    /\ NoCall /\ NoCommand

(***************************************************************************)
(* LookingGlassOptionHandler                                               *)
(***************************************************************************)
\* a put whose queue.Full is not caught: on a full queue the call does not
\* return normally
OfferUncaught(it) ==
    LET r == PutNowait(queue, it)
    IN  /\ ~r.full
        /\ queue' = r.queue
        /\ log' = log
        /\ accepted' = Append(accepted, it.id)

\* put(it, block=False) and the except Full branch that logs the warning
Offer(it) ==
    LET r == PutNowait(queue, it)
    IN  /\ queue' = r.queue
        /\ log' = IF r.full THEN log \cup {"warning: queue is full"} ELSE log
        /\ accepted' = IF r.full THEN accepted ELSE Append(accepted, it.id)

\* LookingGlassOptionHandler.pre: the server has received a request
pre(b) ==
    /\ variant \in Workers
    /\ phase.step = "new"
    /\ phase.txn <= MaxTxn
    /\ Offer(Event("pre", b, phase.txn))
    /\ phase' = [phase EXCEPT !.step = "pre", !.bundle = b]
    /\ UNCHANGED <<worker_pc, item, clients, del_pc, foreign, handled>>
    /\ UNCHANGED kafka_vars /\ UNCHANGED config_vars /\ UNCHANGED scenario_vars

\* LookingGlassOptionHandler.post: the server is about to send the response,
\* then it turns to the next request
post ==
    /\ variant \in Workers
    /\ phase.step = "pre"
    /\ Offer(Event("post", phase.bundle, phase.txn))
    /\ phase' = [txn |-> phase.txn + 1, step |-> "new", bundle |-> 0]
    /\ UNCHANGED <<worker_pc, item, clients, del_pc, foreign, handled>>
    /\ UNCHANGED kafka_vars /\ UNCHANGED config_vars /\ UNCHANGED scenario_vars

\* other code using the public queue attribute of the worker, before the
\* server handles its first request
QueuePut(it) ==
    /\ variant \in Workers
    /\ phase = [txn |-> 1, step |-> "new", bundle |-> 0]
    /\ it.id \notin foreign
    /\ Offer(it)
    /\ foreign' = foreign \cup {it.id}
    /\ UNCHANGED <<worker_pc, item, clients, del_pc, phase, handled>>
    /\ UNCHANGED kafka_vars /\ UNCHANGED config_vars /\ UNCHANGED scenario_vars

\* __del__ is entered
DelCall ==
    /\ variant \in Workers
    /\ del_pc = "none"
    /\ del_pc' = "put"
    /\ UNCHANGED <<queue, worker_pc, item, clients, log, phase, foreign, accepted, handled>>
    /\ UNCHANGED kafka_vars /\ UNCHANGED config_vars /\ UNCHANGED scenario_vars

\* self._worker.queue.put(None): a blocking put, it waits for a free slot
DelPut ==
    /\ del_pc = "put"
    /\ Len(queue) < MaxSize
    /\ queue' = Append(queue, Sentinel)
    /\ accepted' = Append(accepted, Sentinel.id)
    /\ del_pc' = "join"
    /\ UNCHANGED <<worker_pc, item, clients, log, phase, foreign, handled>>
    /\ UNCHANGED kafka_vars /\ UNCHANGED config_vars /\ UNCHANGED scenario_vars

IsAlive == worker_pc \notin {"done", "dead"}

\* self._worker.join(timeout=5) returns, then the is_alive() test
DelJoin ==
    /\ del_pc = "join"
    /\ del_pc' = "done"
    /\ log' = IF IsAlive THEN log \cup {"error: writer has not shut down"} ELSE log
    /\ UNCHANGED <<queue, worker_pc, item, clients, phase, foreign, accepted, handled>>
    /\ UNCHANGED kafka_vars /\ UNCHANGED config_vars /\ UNCHANGED scenario_vars

(***************************************************************************)
(* DatabaseProcess.run                                                     *)
(***************************************************************************)
\* connect, create the table, migrate, commit: the loop is entered, or an
\* exception of sqlite3 ends the process before the loop
WorkerStart ==
    /\ variant \in Workers
    /\ worker_pc = "start"
    /\ worker_pc' \in {"get", "dead"}
    /\ UNCHANGED <<queue, item, clients, del_pc, log, phase, foreign, accepted, handled>>
    /\ UNCHANGED kafka_vars /\ UNCHANGED config_vars /\ UNCHANGED scenario_vars

\* item = self.queue.get(), and the test for the end
WorkerGet ==
    /\ worker_pc = "get"
    /\ queue # <<>>
    /\ LET g == QueueGet(queue)
       IN  /\ queue' = g.queue
           /\ worker_pc' = AfterGet(g.item)
           /\ item' = IF AfterGet(g.item) = "done" THEN NoItem ELSE g.item
    /\ UNCHANGED <<clients, del_pc, log, phase, foreign, accepted, handled>>
    /\ UNCHANGED kafka_vars /\ UNCHANGED config_vars /\ UNCHANGED scenario_vars

\* KeyboardInterrupt while blocked in queue.get(): caught, the loop goes on
WorkerInterrupted ==
    /\ worker_pc = "get"
    /\ worker_pc' = AfterItem("interrupted")
    /\ UNCHANGED <<queue, item, clients, del_pc, log, phase, foreign, accepted, handled>>
    /\ UNCHANGED kafka_vars /\ UNCHANGED config_vars /\ UNCHANGED scenario_vars

\* unpack the item, process_item, commit or rollback, with the store failing
\* at fault
WorkerProcAt(fault) ==
    /\ worker_pc = "proc"
    /\ fault \in Faults(variant, item)
    /\ LET r == RunItem(variant, clients, item, fault)
       IN  /\ clients' = r.clients
           /\ worker_pc' = AfterItem(r.outcome)
    /\ handled' = Append(handled, item.id)
    /\ item' = NoItem
    /\ UNCHANGED <<queue, del_pc, log, phase, foreign, accepted>>
    /\ UNCHANGED kafka_vars /\ UNCHANGED config_vars /\ UNCHANGED scenario_vars

AllFaults == {"none", "interrupt", "insert", "update", "commit"}

WorkerProc == \E fault \in AllFaults : WorkerProcAt(fault)

(***************************************************************************)
(* management/commands/process_kafka.py                                    *)
(***************************************************************************)
ServerNames == {"s1"}

\* a DHCPKafkaMessage: message_in is a bundle id or NULL, message_out is
\* a response or NULL; timestamp_out is taken equal to timestamp_in
KafkaMessage(name, b, ts, out) ==
    [server_name |-> name, message_in |-> b, message_out |-> out,
     timestamp_in |-> ts, timestamp_out |-> ts]

\* Server.objects.get_or_create(name=...)
ServerGetOrCreate(tbl, pk, name) ==
    LET found == {r \in tbl : r.name = name}
    IN  IF found # {} THEN [tbl |-> tbl, obj |-> CHOOSE r \in found : TRUE, created |-> FALSE]
        ELSE LET new == [pk |-> pk, name |-> name]
             IN  [tbl |-> tbl \cup {new}, obj |-> new, created |-> TRUE]

\* a create() without the preceding get()
ClientCreate(tbl, pk, info) ==
    LET new == [pk |-> pk, duid |-> info.duid,
                interface_id |-> info.interface_id, remote_id |-> info.remote_id]
    IN  [tbl |-> tbl \cup {new}, obj |-> new, created |-> TRUE]

\* a get that builds the missing client without saving it
ClientGetOrBuild(tbl, pk, info) ==
    LET found == {r \in tbl : Key(r) = Key(info)}
    IN  IF found # {} THEN [tbl |-> tbl, obj |-> CHOOSE r \in found : TRUE, created |-> FALSE]
        ELSE LET new == [pk |-> pk, duid |-> info.duid,
                         interface_id |-> info.interface_id, remote_id |-> info.remote_id]
             IN  [tbl |-> tbl, obj |-> new, created |-> TRUE]

\* Client.objects.get_or_create(duid=..., interface_id=..., remote_id=...)
ClientGetOrCreate(tbl, pk, info) ==
    LET found == {r \in tbl : Key(r) = Key(info)}
    IN  IF found # {} THEN [tbl |-> tbl, obj |-> CHOOSE r \in found : TRUE, created |-> FALSE]
        ELSE LET new == [pk |-> pk, duid |-> info.duid,
                         interface_id |-> info.interface_id, remote_id |-> info.remote_id]
             IN  [tbl |-> tbl \cup {new}, obj |-> new, created |-> TRUE]

\* the defaults of update_or_create: request stands for request_type, request
\* and request_ll; response_type is None and response is '' without message_out
Defaults(m) ==
    [request |-> m.message_in,
     response_type |-> m.message_out,
     response |-> m.message_out,
     response_ts |-> m.timestamp_out]

\* an update() of the matching row that never creates one
TransactionUpdateOnly(tbl, pk, c, s, m) ==
    LET found == {r \in tbl : r.client = c /\ r.server = s /\ r.request_ts = m.timestamp_in}
        d == Defaults(m)
    IN  [tbl |-> {IF r \in found
                  THEN [r EXCEPT !.request = d.request,
                                 !.response_type = d.response_type,
                                 !.response = d.response,
                                 !.response_ts = d.response_ts]
                  ELSE r : r \in tbl},
         created |-> FALSE]

\* Transaction.objects.update_or_create(client=, server=, request_ts=, defaults=)
TransactionUpdateOrCreate(tbl, pk, c, s, m) ==
    LET found == {r \in tbl : r.client = c /\ r.server = s /\ r.request_ts = m.timestamp_in}
        d == Defaults(m)
        fresh == [pk |-> pk, client |-> c, server |-> s, request_ts |-> m.timestamp_in,
                  request |-> d.request, response_type |-> d.response_type,
                  response |-> d.response, response_ts |-> d.response_ts]
    IN  IF found # {}
        THEN [tbl |-> {IF r \in found
                       THEN [r EXCEPT !.request = d.request,
                                      !.response_type = d.response_type,
                                      !.response = d.response,
                                      !.response_ts = d.response_ts]
                       ELSE r : r \in tbl},
              created |-> FALSE]
        ELSE [tbl |-> tbl \cup {fresh}, created |-> TRUE]

\* a slice of the ascending order: the n oldest
MostRecentAscending(rows, n) ==
    {r \in rows : Cardinality({q \in rows : q.request_ts < r.request_ts}) < n}

\* keep.order_by('-request_ts')[:n]
MostRecent(rows, n) ==
    {r \in rows : Cardinality({q \in rows : q.request_ts > r.request_ts}) < n}

\* a keep whose age filter is request_ts__gt
KeepStrictlyNewer(tbl, c, s, ts, n, age) ==
    LET my_transactions == {r \in tbl : r.client = c /\ r.server = s}
        aged == IF age # 0 THEN {r \in my_transactions : r.request_ts > ts - age}
                ELSE my_transactions
    IN  IF n # 0 THEN MostRecent(aged, n) ELSE aged

\* a keep that leaves the age filter out when a max count is configured
KeepCountOnly(tbl, c, s, ts, n, age) ==
    LET my_transactions == {r \in tbl : r.client = c /\ r.server = s}
        aged == IF age # 0 THEN {r \in my_transactions : r.request_ts >= ts - age}
                ELSE my_transactions
    IN  IF n # 0 THEN MostRecent(my_transactions, n) ELSE aged

\* a keep whose age filter is request_ts__lte: what is older than the deadline
KeepUpToDeadline(tbl, c, s, ts, n, age) ==
    LET my_transactions == {r \in tbl : r.client = c /\ r.server = s}
        aged == IF age # 0 THEN {r \in my_transactions : r.request_ts <= ts - age}
                ELSE my_transactions
    IN  IF n # 0 THEN MostRecent(aged, n) ELSE aged

\* the queryset keep of process_message
Keep(tbl, c, s, ts, n, age) ==
    LET my_transactions == {r \in tbl : r.client = c /\ r.server = s}
        aged == IF age # 0 THEN {r \in my_transactions : r.request_ts >= ts - age}
                ELSE my_transactions
    IN  IF n # 0 THEN MostRecent(aged, n) ELSE aged

\* a retention without the tests whether a limit is configured: an age that
\* is not configured counts as a window of no width
RetentionUnguarded(tbl, c, s, ts, n, age) ==
    LET my_transactions == {r \in tbl : r.client = c /\ r.server = s}
        aged == {r \in my_transactions : r.request_ts >= ts - age}
        keep == IF n # 0 THEN MostRecent(aged, n) ELSE aged
    IN  tbl \ (my_transactions \ keep)

\* a retention whose my_transactions is not filtered by client and server
RetentionWholeTable(tbl, c, s, ts, n, age) ==
    IF n # 0 \/ age # 0
    THEN LET aged == IF age # 0 THEN {r \in tbl : r.request_ts >= ts - age} ELSE tbl
             keep == IF n # 0 THEN MostRecent(aged, n) ELSE aged
         IN  tbl \ (tbl \ keep)
    ELSE tbl

\* "Only keep the last transactions per client/server"
Retention(tbl, c, s, ts, n, age) ==
    IF n # 0 \/ age # 0
    THEN LET my_transactions == {r \in tbl : r.client = c /\ r.server = s}
             delete == my_transactions \ Keep(tbl, c, s, ts, n, age)
         IN  tbl \ delete
    ELSE tbl

KafkaFaults == {"none", "server", "client", "transaction", "delete"}

\* Command.process_message: the tables it leaves behind and whether it raised.
\* Each ORM call commits by itself; fault names the call at which the store fails.
process_message(m, fault, st) ==
    IF m.message_in = NULL THEN [st EXCEPT !.outcome = "ignored"]
    ELSE LET info == get_transaction_info(Bundles[m.message_in])
         IN  IF ~info.ok \/ fault = "server" THEN [st EXCEPT !.outcome = "raised"]
             ELSE LET sv == ServerGetOrCreate(st.servers, st.next_pk.server, m.server_name)
                      s1 == [st EXCEPT !.servers = sv.tbl,
                                       !.next_pk.server = IF sv.created THEN @ + 1 ELSE @]
                  IN  IF fault = "client" THEN [s1 EXCEPT !.outcome = "raised"]
                      ELSE LET cl == ClientGetOrCreate(s1.kclients, s1.next_pk.client, info)
                               s2 == [s1 EXCEPT !.kclients = cl.tbl,
                                                !.next_pk.client = IF cl.created THEN @ + 1 ELSE @]
                           IN  IF fault = "transaction" THEN [s2 EXCEPT !.outcome = "raised"]
                               ELSE LET tx == TransactionUpdateOrCreate(s2.transactions,
                                                   s2.next_pk.transaction, cl.obj.pk, sv.obj.pk, m)
                                        s3 == [s2 EXCEPT !.transactions = tx.tbl,
                                                         !.next_pk.transaction =
                                                             IF tx.created THEN @ + 1 ELSE @,
                                                         !.written = @ \cup
                                                             {[client |-> cl.obj.pk,
                                                               server |-> sv.obj.pk,
                                                               request_ts |-> m.timestamp_in]}]
                                    IN  IF fault = "delete" /\ (st.n # 0 \/ st.age # 0)
                                        THEN [s3 EXCEPT !.outcome = "raised"]
                                        ELSE [s3 EXCEPT !.transactions =
                                                  Retention(s3.transactions, cl.obj.pk, sv.obj.pk,
                                                            m.timestamp_in, st.n, st.age),
                                                        !.outcome = "done"]

\* the tables and the settings process_message starts from
Store ==
    [servers |-> servers, kclients |-> kclients, transactions |-> transactions,
     next_pk |-> next_pk, n |-> max_transactions, age |-> max_transaction_age,
     written |-> written, outcome |-> "none"]

\* one iteration of "for incoming_message in kafka_consumer" in Command.handle:
\* process_message, and the except branch that logs what it raised
Consume(m, fault) ==
    /\ variant = "kafka"
    /\ consumed < MaxMsg
    /\ LET r == process_message(m, fault, Store)
       IN  /\ servers' = r.servers
           /\ kclients' = r.kclients
           /\ transactions' = r.transactions
           /\ next_pk' = r.next_pk
           /\ consumed' = consumed + 1
           /\ written' = r.written
           /\ log' = IF r.outcome = "raised"
                     THEN log \cup {"error: invalid message from Kafka"} ELSE log
    /\ UNCHANGED <<queue, worker_pc, item, clients, del_pc, phase, foreign, accepted, handled>>
    /\ UNCHANGED config_vars /\ UNCHANGED scenario_vars

(***************************************************************************)
(* Specification                                                           *)
(***************************************************************************)
Next ==
    \/ \E b \in BundleIds : pre(b)
    \/ post
    \/ QueuePut(OtherStage)
    \/ QueuePut(Junk)
    \/ DelCall
    \/ DelPut
    \/ DelJoin
    \/ WorkerStart
    \/ WorkerGet
    \/ WorkerInterrupted
    \/ WorkerProc
    \/ \E name \in ServerNames, b \in BundleIds \cup {NULL}, ts \in 1..MaxMsg + 1,
          out \in {NULL, 1}, fault \in KafkaFaults :
          Consume(KafkaMessage(name, b, ts, out), fault)

Spec == Init /\ [][Next]_vars

(***************************************************************************)
(* The identifier extraction on its own: one message with a raw            *)
(* interface-id and remote-id is handed to the extraction of one of the    *)
(* three code paths.                                                       *)
(***************************************************************************)
\* the octets '0', 'd', 'x' and the non-ASCII octet 0xdd
Octets == {48, 100, 120, 221}

RECURSIVE OctetStrings(_)
OctetStrings(n) ==
    IF n = 0 THEN {<<>>}
    ELSE LET shorter == OctetStrings(n - 1)
         IN  shorter \cup {Append(s, o) : s \in {t \in shorter : Len(t) = n - 1}, o \in Octets}

RawValues == OctetStrings(MaxLen)

\* the enterprise number of the relay's RemoteIdOption
RelayEnterprise == 12

\* a request with a client-id that came in directly or through one relay
RelayedBundle(hops, interface_id, remote_id) ==
    [present |-> TRUE, client_id |-> LinkLayerDUID(1, <<2, 171>>), hops |-> hops,
     interface_id |-> interface_id, remote_id |-> remote_id]

\* relayed requests whose client-id holds a DUID-EN, or that have no client-id
OtherClientIds ==
    {[RelayedBundle(1, i, NoOption) EXCEPT !.client_id = c] :
        i \in {NoOption, InterfaceIdOption(<<48>>)},
        c \in {EnterpriseDUID(9, <<7>>), NoOption}}

RawBundles ==
    {RelayedBundle(0, NoOption, NoOption), RelayedBundle(1, NoOption, NoOption)}
    \cup OtherClientIds
    \cup {RelayedBundle(1, InterfaceIdOption(b), NoOption) : b \in RawValues}
    \cup {RelayedBundle(1, NoOption, RemoteIdOption(RelayEnterprise, b)) : b \in RawValues}
    \cup {RelayedBundle(1, InterfaceIdOption(b), RemoteIdOption(RelayEnterprise, b)) :
              b \in RawValues}

Generations == Workers \cup {"kafka"}

Extract(v) ==
    /\ raw.present
    /\ rendered' = [by |-> v,
                    ids |-> IF v = "kafka" THEN get_transaction_info(raw)
                                           ELSE get_identifiers(v, raw)]
    /\ UNCHANGED raw
    /\ UNCHANGED pipeline_vars /\ UNCHANGED kafka_vars /\ UNCHANGED config_vars
    /\ UNCHANGED reload_vars /\ UNCHANGED phase2 /\ UNCHANGED startup_vars
    /\ UNCHANGED call_vars /\ UNCHANGED cmd

InitRender ==
    /\ InitServer
    /\ variant = "dhcpkit" /\ max_transactions = 0 /\ max_transaction_age = 0
    /\ raw \in RawBundles
    /\ rendered = NotRendered
    /\ NoReload /\ phase2 = NoThread /\ NoStartup /\ NoCall /\ NoCommand

NextRender == \E v \in Generations : Extract(v)

SpecRender == InitRender /\ [][NextRender]_vars

(***************************************************************************)
(* Reload: the server constructs a second handler for the same status-file *)
(* and drops the first one; __del__ of a handler may run more than once.   *)
(***************************************************************************)
\* LookingGlassOptionHandler.__init__ of the second handler:
\* DatabaseProcess(filename) and start(), whatever the first worker is doing
Construct ==
    /\ variant \in Workers
    /\ worker2_pc = "none"
    /\ worker2_pc' = "start"
    /\ UNCHANGED del_again
    /\ UNCHANGED pipeline_vars /\ UNCHANGED kafka_vars /\ UNCHANGED config_vars
    /\ UNCHANGED extraction_vars /\ UNCHANGED phase2 /\ UNCHANGED startup_vars
    /\ UNCHANGED call_vars /\ UNCHANGED cmd

\* run() of the second worker: sqlite3.connect on the same file and the
\* table set-up, then it waits on its own queue
Worker2Start ==
    /\ worker2_pc = "start"
    /\ worker2_pc' \in {"get", "dead"}
    /\ UNCHANGED del_again
    /\ UNCHANGED pipeline_vars /\ UNCHANGED kafka_vars /\ UNCHANGED config_vars
    /\ UNCHANGED extraction_vars /\ UNCHANGED phase2 /\ UNCHANGED startup_vars
    /\ UNCHANGED call_vars /\ UNCHANGED cmd

\* a worker holds its connection from connect() until its process ends
HoldsConnection(pc) == pc \in {"get", "proc"}

\* __del__ is entered again after it has run to its end: no attribute of
\* the handler records that it ran
DelAgain ==
    /\ variant \in Workers
    /\ del_pc = "done"
    /\ ~del_again
    /\ del_again' = TRUE
    /\ del_pc' = "put"
    /\ UNCHANGED worker2_pc
    /\ UNCHANGED <<queue, worker_pc, item, clients, log, phase, foreign, accepted, handled>>
    /\ UNCHANGED kafka_vars /\ UNCHANGED config_vars
    /\ UNCHANGED extraction_vars /\ UNCHANGED phase2 /\ UNCHANGED startup_vars
    /\ UNCHANGED call_vars /\ UNCHANGED cmd

InitReload == Init /\ variant \in Workers

NextReload ==
    \/ \E b \in BundleIds : pre(b)
    \/ post
    \/ DelCall
    \/ DelPut
    \/ DelJoin
    \/ DelAgain
    \/ WorkerStart
    \/ WorkerGet
    \/ WorkerProc
    \/ Construct
    \/ Worker2Start

SpecReload == InitReload /\ [][NextReload]_vars

(***************************************************************************)
(* Two server threads call pre() and post() of the one handler, each for   *)
(* its own requests; Queue.put takes the queue's lock, so the two puts of  *)
(* a race happen one after the other, in either order.                     *)
(***************************************************************************)
\* the transactions of the second thread are numbered after the first's
FirstTxn2 == MaxTxn + 1

\* the second thread handles one request
LastTxn2 == FirstTxn2

\* LookingGlassOptionHandler.pre called by the second thread
pre2(b) ==
    /\ variant \in Workers
    /\ phase2.step = "new"
    /\ phase2.txn <= LastTxn2
    /\ Offer(Event("pre", b, phase2.txn))
    /\ phase2' = [phase2 EXCEPT !.step = "pre", !.bundle = b]
    /\ UNCHANGED <<worker_pc, item, clients, del_pc, phase, foreign, handled>>
    /\ UNCHANGED kafka_vars /\ UNCHANGED config_vars
    /\ UNCHANGED extraction_vars /\ UNCHANGED reload_vars /\ UNCHANGED startup_vars
    /\ UNCHANGED call_vars /\ UNCHANGED cmd

\* LookingGlassOptionHandler.post called by the second thread
post2 ==
    /\ variant \in Workers
    /\ phase2.step = "pre"
    /\ Offer(Event("post", phase2.bundle, phase2.txn))
    /\ phase2' = [txn |-> phase2.txn + 1, step |-> "new", bundle |-> 0]
    /\ UNCHANGED <<worker_pc, item, clients, del_pc, phase, foreign, handled>>
    /\ UNCHANGED kafka_vars /\ UNCHANGED config_vars
    /\ UNCHANGED extraction_vars /\ UNCHANGED reload_vars /\ UNCHANGED startup_vars
    /\ UNCHANGED call_vars /\ UNCHANGED cmd

InitThreads ==
    /\ InitServer
    /\ variant = "dhcpkit"
    /\ phase2 = [txn |-> FirstTxn2, step |-> "new", bundle |-> 0]
    /\ NoExtraction /\ NoReload /\ NoStartup /\ NoCall /\ NoCommand

NextThreads ==
    \/ pre(1)
    \/ post
    \/ pre2(2)
    \/ post2
    \/ DelCall
    \/ DelPut
    \/ DelJoin
    \/ WorkerStart
    \/ WorkerGet
    \/ WorkerProc

SpecThreads == InitThreads /\ [][NextThreads]_vars

(***************************************************************************)
(* The set-up at the start of DatabaseProcess.run, statement by statement, *)
(* on a store file that outlives the workers.  DDL statements and PRAGMAs  *)
(* take effect when they are executed.                                     *)
(***************************************************************************)
\* the columns of CREATE TABLE in dhcpkit/database_writer.py
ColumnsDhcpkit ==
    {"id", "duid", "interface_id", "remote_id", "last_request", "last_request_ll",
     "last_request_ts", "last_response", "last_response_ts"}

\* the columns of CREATE TABLE in database_writer.py
ColumnsToplevel ==
    {"duid", "duid_ll", "interface_id", "remote_id",
     "last_request_transaction", "last_request_type", "last_request_ts",
     "last_request_options", "last_response_transaction", "last_response_type",
     "last_response_ts", "last_response_options"}

CreatedColumns(v) == IF v = "toplevel" THEN ColumnsToplevel ELSE ColumnsDhcpkit

\* the columns the INSERT and UPDATE statements of a writer name
UsedColumns(v) ==
    IF v = "toplevel" THEN ColumnsToplevel
    ELSE (ColumnsDhcpkit \ {"id"}) \cup {"last_request_type", "last_response_type"}

\* CREATE TABLE IF NOT EXISTS clients: nothing happens when the table exists
CreateTableIfNotExists(st, v) ==
    IF st.columns = {} THEN [st EXCEPT !.columns = CreatedColumns(v)] ELSE st

\* ALTER TABLE clients ADD COLUMN c: an OperationalError when c exists
AddColumn(r, c) ==
    IF ~r.ok THEN r
    ELSE IF c \in r.store.columns THEN [r EXCEPT !.ok = FALSE]
    ELSE [r EXCEPT !.store.columns = @ \cup {c}]

\* what the set-up of a worker leaves alone
outside_startup ==
    <<pipeline_vars, kafka_vars, config_vars, extraction_vars, reload_vars, phase2,
      call_vars, cmd>>

\* sqlite3.connect(self.filename) and PRAGMA JOURNAL_MODE=WAL
Connect(v) ==
    /\ startup.pc = "stopped"
    /\ startup' = [pc |-> "connected", by |-> v, before |-> store, last_version |-> 0]
    /\ UNCHANGED store
    /\ UNCHANGED outside_startup

CreateTable ==
    /\ startup.pc = "connected"
    /\ store' = CreateTableIfNotExists(store, startup.by)
    /\ startup' = [startup EXCEPT !.pc = "created"]
    /\ UNCHANGED outside_startup

\* PRAGMA USER_VERSION and fetchone(): dhcpkit/database_writer.py only
ReadVersion ==
    /\ startup.pc = "created"
    /\ startup.by = "dhcpkit"
    /\ startup' = [startup EXCEPT !.pc = "versioned", !.last_version = store.user_version]
    /\ UNCHANGED store
    /\ UNCHANGED outside_startup

\* if last_version < 1: the two ALTER TABLE statements, last_version = 1
Migrate ==
    /\ startup.pc = "versioned"
    /\ IF startup.last_version < 1
       THEN LET r == AddColumn(AddColumn([ok |-> TRUE, store |-> store],
                                         "last_request_type"),
                               "last_response_type")
            IN  /\ store' = r.store
                /\ startup' = IF r.ok
                              THEN [startup EXCEPT !.pc = "migrated", !.last_version = 1]
                              ELSE [startup EXCEPT !.pc = "failed"]
       ELSE /\ startup' = [startup EXCEPT !.pc = "migrated"]
            /\ UNCHANGED store
    /\ UNCHANGED outside_startup

\* PRAGMA USER_VERSION = last_version
SetVersion ==
    /\ startup.pc = "migrated"
    /\ store' = [store EXCEPT !.user_version = startup.last_version]
    /\ startup' = [startup EXCEPT !.pc = "versionset"]
    /\ UNCHANGED outside_startup

\* db.commit(), the loop is entered
Commit ==
    /\ \/ startup.pc = "versionset"
       \/ startup.pc = "created" /\ startup.by = "toplevel"
    /\ startup' = [startup EXCEPT !.pc = "running"]
    /\ UNCHANGED store
    /\ UNCHANGED outside_startup

\* the running worker stores a new client
InsertRow ==
    /\ startup.pc = "running"
    /\ UsedColumns(startup.by) \subseteq store.columns
    /\ store.rows < MaxRows
    /\ store' = [store EXCEPT !.rows = @ + 1]
    /\ UNCHANGED startup
    /\ UNCHANGED outside_startup

\* the worker process has ended, by the sentinel or by the exception
Stop ==
    /\ startup.pc \in {"running", "failed"}
    /\ startup' = [startup EXCEPT !.pc = "stopped"]
    /\ UNCHANGED store
    /\ UNCHANGED outside_startup

\* the worker process is killed between two statements of the set-up
Kill ==
    /\ startup.pc \in {"connected", "created", "versioned", "migrated", "versionset"}
    /\ startup' = [startup EXCEPT !.pc = "stopped"]
    /\ UNCHANGED store
    /\ UNCHANGED outside_startup

InitStartup ==
    /\ InitServer
    /\ variant = "dhcpkit"
    /\ NoExtraction /\ NoReload /\ phase2 = NoThread /\ NoCall /\ NoCommand
    /\ store = NoStore
    /\ startup = [pc |-> "stopped", by |-> "dhcpkit", before |-> NoStore,
                  last_version |-> 0]

NextStartup ==
    \/ \E v \in Workers : Connect(v)
    \/ CreateTable
    \/ ReadVersion
    \/ Migrate
    \/ SetVersion
    \/ Commit
    \/ InsertRow
    \/ Stop
    \/ Kill

SpecStartup == InitStartup /\ [][NextStartup]_vars

(***************************************************************************)
(* Functions called on their own: the display accessors of the web models  *)
(* (models.py) and _fix_broker of the Kafka command.  A MAC address is the *)
(* sequence of its octets; netaddr's EUI, OUI and registry are modelled    *)
(* by what the accessors use of them.                                      *)
(***************************************************************************)
None == [none |-> TRUE]

Some(v) == [none |-> FALSE, value |-> v]

\* the value of a hexadecimal digit in either case, -1 for another character
FromHexDigit(c) ==
    IF c \in 48..57 THEN c - 48
    ELSE IF c \in 97..102 THEN c - 87
    ELSE IF c \in 65..70 THEN c - 55
    ELSE 0 - 1

\* bytes.fromhex(text): ValueError on an odd length or a character that is
\* no hexadecimal digit
FromHex(text) ==
    IF Len(text) % 2 = 1 \/ \E i \in DOMAIN text : FromHexDigit(text[i]) < 0
    THEN None
    ELSE Some([i \in 1..(Len(text) \div 2) |->
                  16 * FromHexDigit(text[2 * i - 1]) + FromHexDigit(text[2 * i])])

\* int.from_bytes(data, byteorder='big') of a short field
RECURSIVE FromBigEndian(_)
FromBigEndian(data) ==
    IF data = <<>> THEN 0
    ELSE 256 * FromBigEndian(SubSeq(data, 1, Len(data) - 1)) + data[Len(data)]

\* data without its first n octets
Rest(data, n) == SubSeq(data, n + 1, Len(data))

\* DUID.parse: the class is chosen by the first two octets; a buffer too
\* short for the fixed fields of its class raises
ParseDuid(data) ==
    IF Len(data) < 2 THEN None
    ELSE LET type == FromBigEndian(SubSeq(data, 1, 2))
         IN  IF type = 1
             THEN IF Len(data) < 8 THEN None
                  ELSE Some(LinkLayerTimeDUID(FromBigEndian(SubSeq(data, 3, 4)),
                                              FromBigEndian(SubSeq(data, 5, 8)),
                                              Rest(data, 8)))
             ELSE IF type = 2
             THEN IF Len(data) < 6 THEN None
                  ELSE Some(EnterpriseDUID(FromBigEndian(SubSeq(data, 3, 6)), Rest(data, 6)))
             ELSE IF type = 3
             THEN IF Len(data) < 4 THEN None
                  ELSE Some(LinkLayerDUID(FromBigEndian(SubSeq(data, 3, 4)), Rest(data, 4)))
             ELSE Some(UnknownDUID(type, Rest(data, 2)))

RECURSIVE StripZeros(_)
StripZeros(data) ==
    IF data # <<>> /\ Head(data) = 0 THEN StripZeros(Tail(data)) ELSE data

\* data with zero octets in front up to n octets
RECURSIVE PadTo(_, _)
PadTo(data, n) == IF Len(data) >= n THEN data ELSE PadTo(<<0>> \o data, n)

\* EUI(int.from_bytes(data, 'big')): an EUI-48 for a value below 2^48, an
\* EUI-64 for one below 2^64, AddrFormatError beyond
Eui(data) ==
    LET digits == StripZeros(data)
    IN  IF Len(digits) <= 6 THEN Some(PadTo(digits, 6))
        ELSE IF Len(digits) <= 8 THEN Some(PadTo(digits, 8))
        ELSE None

\* the organisations of the IEEE registry, by OUI
OuiRegistry ==
    [oui \in {<<0, 0, 0>>, <<0, 0, 12>>} |->
        IF oui = <<0, 0, 12>> THEN "Cisco Systems, Inc" ELSE "XEROX CORPORATION"]

\* eui.oui.registration()['org']: the OUI constructor raises
\* NotRegisteredError for a prefix that is not in the registry
OuiOrg(mac) ==
    LET oui == SubSeq(mac, 1, 3)
    IN  IF oui \in DOMAIN OuiRegistry
        THEN [raised |-> FALSE, value |-> Some(OuiRegistry[oui])]
        ELSE [raised |-> TRUE]

Returned(v) == [raised |-> FALSE, value |-> v]

\* Client.duid_ll: every exception of the chain is swallowed
duid_ll(client) ==
    LET duid_str == IF Len(client.duid) >= 2 /\ SubSeq(client.duid, 1, 2) = Prefix0x
                    THEN Rest(client.duid, 2) ELSE client.duid
        duid_bytes == FromHex(duid_str)
    IN  IF duid_bytes.none THEN Returned(None)
        ELSE LET parsed == ParseDuid(duid_bytes.value)
             IN  IF parsed.none THEN Returned(None)
                 ELSE IF ~HasAttr(parsed.value, "hardware_type") THEN Returned(None)
                 ELSE IF parsed.value.hardware_type = 1
                         /\ HasAttr(parsed.value, "link_layer_address")
                 THEN Returned(Eui(parsed.value.link_layer_address))
                 ELSE Returned(None)

\* Client.duid_ll_org
duid_ll_org(client) ==
    LET ll == duid_ll(client).value
    IN  IF ll.none THEN Returned(None) ELSE OuiOrg(ll.value)

\* mac_bytes[0] ^= 2
FlipBit(octet) == IF (octet \div 2) % 2 = 1 THEN octet - 2 ELSE octet + 2

\* Transaction.request_ll_mac: request_ll is NULL or blank, or a text that
\* IPv6Address accepts (packed is its 16 octets) or rejects
request_ll_mac(transaction) ==
    IF transaction.request_ll.blank THEN Returned(None)
    ELSE IF ~transaction.request_ll.valid THEN Returned(None)
    ELSE LET int_id == Rest(transaction.request_ll.packed, 8)
         IN  IF SubSeq(int_id, 4, 5) = <<255, 254>>
             THEN LET mac_bytes == SubSeq(int_id, 1, 3) \o SubSeq(int_id, 6, 8)
                  IN  Returned(Eui([mac_bytes EXCEPT ![1] = FlipBit(@)]))
             ELSE Returned(None)

\* Transaction.request_ll_mac_org
request_ll_mac_org(transaction) ==
    LET mac == request_ll_mac(transaction).value
    IN  IF mac.none THEN Returned(None) ELSE OuiOrg(mac.value)

IsDigit(c) == c \in 48..57

\* re.match(':\d+$', broker): the pattern is tried at the start of the
\* string only; $ matches at the end and before a final newline
ReMatchPort(broker) ==
    /\ Len(broker) >= 2
    /\ broker[1] = 58
    /\ \E n \in 2..Len(broker) :
          /\ \A i \in 2..n : IsDigit(broker[i])
          /\ n = Len(broker) \/ (n = Len(broker) - 1 /\ broker[Len(broker)] = 10)

\* ':9092'
DefaultPort == <<58, 57, 48, 57, 50>>

\* _fix_broker
fix_broker(broker) == IF ~ReMatchPort(broker) THEN broker \o DefaultPort ELSE broker

\* the characters 'h', ':' and '9'
BrokerChars == {104, 58, 57}

RECURSIVE Texts(_, _)
Texts(chars, n) ==
    IF n = 0 THEN {<<>>}
    ELSE LET shorter == Texts(chars, n - 1)
         IN  shorter \cup {Append(t, c) : t \in {u \in shorter : Len(u) = n - 1}, c \in chars}

Brokers == Texts(BrokerChars, MaxBroker) \ {<<>>}

\* link-layer addresses: with a registered and with an unregistered prefix,
\* empty, of 8 octets and of 9
LinkLayerAddresses ==
    {<<a, 0, c, 1, 2, 3>> : a \in {0, 2}, c \in {12, 13}}
    \cup {<<>>, <<2, 0, 12, 9, 1, 2, 3, 4>>, <<1, 0, 0, 12, 1, 2, 3, 4, 5>>}

StoredDuids ==
    {LinkLayerDUID(hw, lla) : hw \in {1, 6}, lla \in LinkLayerAddresses}
    \cup {LinkLayerTimeDUID(hw, 5, lla) : hw \in {1, 6}, lla \in LinkLayerAddresses}
    \cup {EnterpriseDUID(9, <<7>>), UnknownDUID(4, <<7>>)}

\* Client.duid as either writer and the command store it, as hex without
\* the prefix, and texts that are no DUID: "0x0", "zz", "", "0x0003"
ClientDuids ==
    {Prefix0x \o HexEncode(DuidSave(d)) : d \in StoredDuids}
    \cup {HexEncode(DuidSave(d)) : d \in StoredDuids}
    \cup {<<48, 120, 48>>, <<122, 122>>, <<>>, <<48, 120, 48, 48, 48, 51>>}

\* fe80::/64 and an interface identifier
LinkLocal(int_id) ==
    [blank |-> FALSE, valid |-> TRUE, packed |-> <<254, 128, 0, 0, 0, 0, 0, 0>> \o int_id]

\* Transaction.request_ll: NULL, a text that is no address, link-local
\* addresses made from a MAC address and one that is not
RequestLls ==
    {[blank |-> TRUE], [blank |-> FALSE, valid |-> FALSE]}
    \cup {LinkLocal(<<a, 0, c, 255, 254, 1, 2, 3>>) : a \in {0, 2}, c \in {12, 13}}
    \cup {LinkLocal(<<2, 0, 12, 1, 2, 3, 4, 5>>)}

Arguments ==
    {[of |-> "client", duid |-> d] : d \in ClientDuids}
    \cup {[of |-> "transaction", request_ll |-> a] : a \in RequestLls}
    \cup {[of |-> "broker", broker |-> b] : b \in Brokers}

\* what a call leaves alone
outside_calls ==
    <<pipeline_vars, kafka_vars, config_vars, extraction_vars, reload_vars, phase2,
      startup_vars, cmd>>

\* a template reads client.duid_ll
GetDuidLl ==
    /\ arg.of = "client"
    /\ result' = [by |-> "duid_ll", out |-> duid_ll(arg)]
    /\ UNCHANGED arg /\ UNCHANGED outside_calls

\* a template reads client.duid_ll_org
GetDuidLlOrg ==
    /\ arg.of = "client"
    /\ result' = [by |-> "duid_ll_org", out |-> duid_ll_org(arg)]
    /\ UNCHANGED arg /\ UNCHANGED outside_calls

\* a template reads transaction.request_ll_mac
GetRequestLlMac ==
    /\ arg.of = "transaction"
    /\ result' = [by |-> "request_ll_mac", out |-> request_ll_mac(arg)]
    /\ UNCHANGED arg /\ UNCHANGED outside_calls

\* a template reads transaction.request_ll_mac_org
GetRequestLlMacOrg ==
    /\ arg.of = "transaction"
    /\ result' = [by |-> "request_ll_mac_org", out |-> request_ll_mac_org(arg)]
    /\ UNCHANGED arg /\ UNCHANGED outside_calls

\* Command.handle maps _fix_broker over options['brokers']
FixBroker ==
    /\ arg.of = "broker"
    /\ result' = [by |-> "fix_broker", out |-> Returned(fix_broker(arg.broker))]
    /\ UNCHANGED arg /\ UNCHANGED outside_calls

InitCalls ==
    /\ InitServer
    /\ variant = "kafka" /\ max_transactions = 0 /\ max_transaction_age = 0
    /\ NoExtraction /\ NoReload /\ phase2 = NoThread /\ NoStartup /\ NoCommand
    /\ arg \in Arguments
    /\ result = [by |-> "none"]

NextCalls ==
    \/ GetDuidLl
    \/ GetDuidLlOrg
    \/ GetRequestLlMac
    \/ GetRequestLlMacOrg
    \/ FixBroker

SpecCalls == InitCalls /\ [][NextCalls]_vars

(***************************************************************************)
(* Command.handle: the consumer loop and its stop flag                     *)
(***************************************************************************)
\* the messages a producer can have waiting in the topic
MaxPending == 2

\* what the loop leaves alone
outside_handle == <<queue, worker_pc, item, clients, del_pc, phase, foreign,
                    accepted, handled, consumed, config_vars, extraction_vars,
                    reload_vars, phase2, startup_vars, call_vars>>

\* no message is in the loop body
NoIncoming == [kind |-> "none", b |-> NULL, out |-> NULL]

\* incoming_message.value: bytes that do not parse, a Kafka message of
\* another type, or a DHCPKafkaMessage
Incoming ==
    {[kind |-> k, b |-> NULL, out |-> NULL] : k \in {"invalid", "other"}}
    \cup {[kind |-> "dhcp", b |-> b, out |-> out] : b \in {NULL, 1}, out \in {NULL, 1}}

\* the DHCPKafkaMessage that KafkaMessage.parse returns
Parsed(incoming) == KafkaMessage("s1", incoming.b, 1, incoming.out)

\* signal_stop: the handler of SIGINT and SIGTERM
signal_stop ==
    /\ cmd.pc # "returned"
    /\ ~cmd.stopping
    /\ cmd' = [cmd EXCEPT !.stopping = TRUE]
    /\ log' = log \cup {"info: Stopping..."}
    /\ UNCHANGED <<servers, kclients, transactions, next_pk, written>>
    /\ UNCHANGED outside_handle

\* a producer publishes a message to the topic
Publish(incoming) ==
    /\ Len(cmd.pending) < MaxPending
    /\ cmd' = [cmd EXCEPT !.pending = Append(@, incoming)]
    /\ UNCHANGED <<servers, kclients, transactions, next_pk, written, log>>
    /\ UNCHANGED outside_handle

\* "while not stopping:" of the outer loop; falling out of it returns
OuterTest ==
    /\ cmd.pc = "outer"
    /\ cmd' = [cmd EXCEPT !.pc = IF cmd.stopping THEN "returned" ELSE "connect"]
    /\ UNCHANGED <<servers, kclients, transactions, next_pk, written, log>>
    /\ UNCHANGED outside_handle

\* KafkaClient(...), kafka.topics[...], get_balanced_consumer(...): the
\* consumer is there, or the connection raised
ConnectKafka(fails) ==
    /\ cmd.pc = "connect"
    /\ cmd' = [cmd EXCEPT !.pc = IF fails THEN "sleep" ELSE "inner"]
    /\ log' = IF fails THEN log \cup {"critical: connection"} ELSE log
    /\ UNCHANGED <<servers, kclients, transactions, next_pk, written>>
    /\ UNCHANGED outside_handle

\* "while not stopping:" of the inner loop; falling out of it is the end of
\* the try block and of this pass of the outer loop
InnerTest ==
    /\ cmd.pc = "inner"
    /\ cmd' = [cmd EXCEPT !.pc = IF cmd.stopping THEN "outer" ELSE "for"]
    /\ UNCHANGED <<servers, kclients, transactions, next_pk, written, log>>
    /\ UNCHANGED outside_handle

\* "for incoming_message in kafka_consumer": the next message when one is
\* waiting, the end of the iteration after consumer_timeout_ms without one
ForNext ==
    /\ cmd.pc = "for"
    /\ cmd' = IF cmd.pending # <<>>
              THEN [cmd EXCEPT !.pc = "body", !.current = Head(cmd.pending),
                               !.pending = Tail(cmd.pending)]
              ELSE [cmd EXCEPT !.pc = "inner"]
    /\ UNCHANGED <<servers, kclients, transactions, next_pk, written, log>>
    /\ UNCHANGED outside_handle

\* the consumer raises while iterating: ConsumerStoppedException returns,
\* any other exception goes to the back-off
ForRaises(stopped) ==
    /\ cmd.pc = "for"
    /\ cmd' = [cmd EXCEPT !.pc = IF stopped THEN "returned" ELSE "sleep"]
    /\ log' = IF stopped THEN log ELSE log \cup {"critical: connection"}
    /\ UNCHANGED <<servers, kclients, transactions, next_pk, written>>
    /\ UNCHANGED outside_handle

\* the body of the for loop: parse, skip a message of another type,
\* process_message, and the except branch that logs what was raised
Body(fault) ==
    /\ cmd.pc = "body"
    /\ LET r == IF cmd.current.kind = "dhcp"
                THEN process_message(Parsed(cmd.current), fault, Store)
                ELSE [Store EXCEPT !.outcome =
                         IF cmd.current.kind = "invalid" THEN "raised" ELSE "ignored"]
       IN  /\ servers' = r.servers
           /\ kclients' = r.kclients
           /\ transactions' = r.transactions
           /\ next_pk' = r.next_pk
           /\ written' = r.written
           /\ log' = IF r.outcome = "raised"
                     THEN log \cup {"error: invalid message from Kafka"} ELSE log
    /\ cmd' = [cmd EXCEPT !.pc = "for", !.current = NoIncoming]
    /\ UNCHANGED outside_handle

\* time.sleep(5) and "Restarting"
Sleep ==
    /\ cmd.pc = "sleep"
    /\ cmd' = [cmd EXCEPT !.pc = "outer"]
    /\ log' = log \cup {"info: Restarting"}
    /\ UNCHANGED <<servers, kclients, transactions, next_pk, written>>
    /\ UNCHANGED outside_handle

\* handle() has installed the signal handlers and enters the outer loop
InitHandle ==
    /\ InitServer
    /\ variant = "kafka" /\ max_transactions = 1 /\ max_transaction_age = 0
    /\ NoExtraction /\ NoReload /\ phase2 = NoThread /\ NoStartup /\ NoCall
    /\ cmd = [pc |-> "outer", stopping |-> FALSE, pending |-> <<>>,
              current |-> NoIncoming]

\* the steps handle() takes by itself
HandleStep ==
    \/ OuterTest
    \/ \E fails \in BOOLEAN : ConnectKafka(fails)
    \/ InnerTest
    \/ ForNext
    \/ \E stopped \in BOOLEAN : ForRaises(stopped)
    \/ \E fault \in {"none", "transaction"} : Body(fault)
    \/ Sleep

NextHandle ==
    \/ signal_stop
    \/ \E incoming \in Incoming : Publish(incoming)
    \/ OuterTest
    \/ \E fails \in BOOLEAN : ConnectKafka(fails)
    \/ InnerTest
    \/ ForNext
    \/ \E stopped \in BOOLEAN : ForRaises(stopped)
    \/ \E fault \in {"none", "transaction"} : Body(fault)
    \/ Sleep

\* the process keeps running: a step of handle() that is possible is taken;
\* signals and producers come when they come
SpecHandle == InitHandle /\ [][NextHandle]_vars /\ WF_vars(HandleStep)

(***************************************************************************)
(* Properties                                                              *)
(***************************************************************************)
Range(f) == {f[i] : i \in DOMAIN f}

IsPrefix(a, b) == Len(a) <= Len(b) /\ SubSeq(b, 1, Len(a)) = a

\* the events accepted before the first sentinel
BeforeSentinel ==
    {accepted[i] : i \in {j \in DOMAIN accepted :
                             \A k \in 1..j : accepted[k] # Sentinel.id}}

\* the identifier tuple of a bundle's client, as either writer renders it
TupleOf(b) == Key(GetIdentifiersDhcpkit(Bundles[b]))

\* C1: a pre() or post() on a full queue returns at once, raises nothing
\* (the warning is logged instead) and leaves the queue's contents as they were.
C1_FullQueueUnchanged ==
    [][((phase' # phase \/ foreign' # foreign) /\ Len(queue) = MaxSize)
         => (queue' = queue /\ accepted' = accepted
             /\ "warning: queue is full" \in log')]_vars

\* an event has been dropped and the queue is still at capacity
C1_Witness ==
    /\ Len(queue) = MaxSize
    /\ phase.txn > 1
    /\ "warning: queue is full" \in log

\* C2: a storage error at any step of handling an event leaves the committed
\* store equal to the store before the event.
C2_StorageErrorRollsBack ==
    [][\A fault \in StorageFaults : WorkerProcAt(fault) => clients' = clients]_vars

C4_TeardownCompletes ==
    del_pc = "put" => (Len(queue) < MaxSize \/ IsAlive)

\* C5: events are handled in the order in which they were accepted, each one
\* finished before the next is dequeued; a post is never handled before the
\* pre of its transaction.
C5_FifoOrder ==
    LET events == SelectSeq(accepted, LAMBDA id : id # Sentinel.id)
        taken == IF item = NoItem THEN handled ELSE Append(handled, item.id)
    IN  /\ IsPrefix(taken, events)
        /\ \A i, j \in DOMAIN taken :
              (taken[i].txn = taken[j].txn /\ taken[i].stage = "pre"
                 /\ taken[j].stage = "post") => i < j

\* two events have been handled and a third one is being handled
C5_Witness == Len(handled) >= 2 /\ item # NoItem

\* C6: after the worker handled an event whose request carries a client
\* identifier, exactly one client row exists for the event's tuple.
C6_OneRowAfterEvent ==
    [][(WorkerProcAt("none") /\ item.kind = "event"
          /\ Bundles[item.bundle].client_id.present)
         => Cardinality(Matching(clients', TupleOf(item.bundle))) = 1]_vars

\* C7: no two client rows have the same (duid, interface_id, remote_id), in
\* the table of the worker and in the table of the Kafka command.
C7_UniqueClients ==
    /\ \A i, j \in DOMAIN clients : Key(clients[i]) = Key(clients[j]) => i = j
    /\ \A r, q \in kclients : Key(r) = Key(q) => r = q

\* the Kafka command has seen one client in two transactions
C7_Witness ==
    /\ Cardinality(kclients) = 1
    /\ Cardinality(transactions) = 2

\* no error of the store and no interrupt hit the pre event of the post event
\* it: its request is what the client's row holds, or there is no row because
\* the identifiers could not be extracted
PreNotFaulted(it) ==
    LET m == Matching(clients, TupleOf(it.bundle))
    IN  /\ \A i \in m : clients[i].last_request = it.txn
        /\ m = {} => ~get_identifiers(variant, Bundles[it.bundle]).ok

\* C8: once the worker has handled the pre event and then the post event of
\* one transaction, one record holds the request and the response of it.
C8_PrePostOneRecord ==
    [][(/\ WorkerProcAt("none") /\ item.kind = "event" /\ item.stage = "post"
        /\ Bundles[item.bundle].client_id.present
        /\ handled # <<>>
        /\ handled[Len(handled)].txn = item.txn
        /\ handled[Len(handled)].stage = "pre"
        /\ PreNotFaulted(item))
         => \E i \in DOMAIN clients' :
               /\ Matching(clients', TupleOf(item.bundle)) = {i}
               /\ clients'[i].last_request = item.txn
               /\ clients'[i].last_response = item.txn]_vars

\* C9: the loop of the worker ends only by dequeuing the sentinel; after an
\* item whose handling failed, and after a KeyboardInterrupt, it is back at
\* queue.get().
C9_LoopEndsOnlyOnSentinel ==
    [][/\ (worker_pc \in {"get", "proc"} /\ worker_pc' \notin {"get", "proc"})
            => (worker_pc = "get" /\ queue # <<>> /\ Head(queue) = Sentinel
                /\ worker_pc' = "done")
       /\ (WorkerProc \/ WorkerInterrupted) => worker_pc' = "get"]_vars

\* the first item failed, the worker went on to handle the next one
C9_Witness ==
    /\ Len(handled) >= 2
    /\ handled[1].stage = "junk"
    /\ worker_pc = "get"

\* C10: once the sentinel is dequeued the worker writes nothing and handles
\* nothing more, and the sentinel itself is never handled as an item.
C10_NothingAfterSentinel ==
    [][/\ worker_pc = "done"
            => (worker_pc' = "done" /\ clients' = clients /\ handled' = handled
                /\ item' = NoItem)
       /\ \A i \in DOMAIN handled' : handled'[i] # Sentinel.id]_vars

\* the worker has exited and an event offered after the sentinel stays queued
C10_Witness ==
    /\ worker_pc = "done"
    /\ queue # <<>>
    /\ clients # <<>>

\* C11: an event whose request has no client identifier option is dropped by
\* the worker: the committed table after the event is the table before it, no
\* row inserted and no request or response column written.
C11_NoClientIdNoWrite ==
    [][\A fault \in AllFaults :
          (WorkerProcAt(fault) /\ item.kind = "event"
             /\ ~Bundles[item.bundle].client_id.present)
          => clients' = clients]_vars

\* the pre event of a request without client identifier has been handled
\* while the table held a row of another client
C11_Witness ==
    /\ phase.step = "pre"
    /\ ~Bundles[phase.bundle].client_id.present
    /\ Id(phase.txn, "pre") \in Range(handled)
    /\ clients # <<>>

\* the level at which the logger received a record
Level(w) == IF w = "warning: queue is full" THEN "warning" ELSE "error"

\* C12: every event the pipeline drops leaves a warning-level record: the
\* handler's when the queue is full, and one of the worker when the
\* identifiers of the event could not be extracted.
C12_EveryDropWarns ==
    [][/\ ((phase' # phase \/ foreign' # foreign) /\ Len(queue) = MaxSize)
            => "warning: queue is full" \in log'
       /\ \A fault \in AllFaults :
             (WorkerProcAt(fault) /\ item.kind = "event"
                /\ ~Bundles[item.bundle].client_id.present)
             => \E w \in log' : Level(w) = "warning" /\ w # "warning: queue is full"]_vars

\* C13: whenever the server is about to call pre() or post(), the call
\* returns normally, whatever the state of the queue, of the worker (starting,
\* running, handling an item, exited, dead) and of the teardown.
C13_ProducerReturns ==
    /\ (variant \in Workers /\ phase.step = "new" /\ phase.txn <= MaxTxn)
          => \A b \in BundleIds : ENABLED pre(b)
    /\ (variant \in Workers /\ phase.step = "pre") => ENABLED post

\* the worker died in its start-up and the teardown has run; a pre() called
\* after the sentinel was queued has returned, and a call has returned from a
\* full queue
C13_Witness ==
    /\ worker_pc = "dead"
    /\ del_pc = "done"
    /\ phase.txn > 1
    /\ "warning: queue is full" \in log
    /\ \E i, j \in DOMAIN accepted :
          i < j /\ accepted[i] = Sentinel.id /\ accepted[j].stage = "pre"

\* the messages the Kafka command can consume
Messages ==
    {KafkaMessage(name, b, ts, out) :
        name \in ServerNames, b \in BundleIds \cup {NULL},
        ts \in 1..MaxMsg + 1, out \in {NULL, 1}}

\* process_message does not return early and the identifiers can be extracted
Handled(m) ==
    m.message_in # NULL /\ get_transaction_info(Bundles[m.message_in]).ok

\* the command is running and m is a message it handles to the end
Consuming(m) == variant = "kafka" /\ consumed < MaxMsg /\ Handled(m)

\* the primary keys of the client row and of the server row of a message
ClientOf(tbl, m) ==
    (CHOOSE c \in tbl : Key(c) = Key(get_transaction_info(Bundles[m.message_in]))).pk

ServerOf(tbl, m) == (CHOOSE sv \in tbl : sv.name = m.server_name).pk

\* the transactions of a pair, and their request timestamps
OfPair(tbl, c, sv) == {r \in tbl : r.client = c /\ r.server = sv}

PairTs(tbl, c, sv) == {r.request_ts : r \in OfPair(tbl, c, sv)}

\* the n greatest of a set of timestamps
TopTs(S, n) == {t \in S : Cardinality({u \in S : u > t}) < n}

Candidates(after, m) ==
    PairTs(transactions, ClientOf(after.kclients, m), ServerOf(after.servers, m))
        \cup {m.timestamp_in}

\* the timestamps not older than the max age, seen from the event's
InWindow(S, ts, age) == {t \in S : t >= ts - age}

\* C15: with a max age D and no max count, after process_message handled an
\* event with request timestamp T the pair's transactions are exactly those
\* with a request timestamp >= T - D, one exactly D old included.
C15_AgeWindow ==
    \A m \in Messages :
        (Consuming(m) /\ max_transactions = 0 /\ max_transaction_age # 0)
        => LET after == process_message(m, "none", Store)
           IN  PairTs(after.transactions, ClientOf(after.kclients, m),
                      ServerOf(after.servers, m))
                 = InWindow(Candidates(after, m), m.timestamp_in, max_transaction_age)

\* a max age and no max count: of two transactions written for one pair the
\* first was older than the window of the second and was deleted
C15_Witness ==
    /\ max_transactions = 0
    /\ max_transaction_age = MaxAge
    /\ Cardinality(written) = 2
    /\ Cardinality(kclients) = 1
    /\ \E t \in transactions : transactions = {t} /\ t.pk = 2

\* C16: with a max age D and a max count N, the pair's transactions after
\* process_message are exactly the N most recent of those inside the age
\* window of the event.
C16_AgeThenCount ==
    \A m \in Messages :
        (Consuming(m) /\ max_transactions # 0 /\ max_transaction_age # 0)
        => LET after == process_message(m, "none", Store)
           IN  PairTs(after.transactions, ClientOf(after.kclients, m),
                      ServerOf(after.servers, m))
                 = TopTs(InWindow(Candidates(after, m), m.timestamp_in,
                                  max_transaction_age),
                         max_transactions)

\* both limits: a transaction inside the age window was deleted by the count,
\* or one that the count would keep was deleted by the age
C16_Witness ==
    /\ max_transactions # 0
    /\ max_transaction_age # 0
    /\ Cardinality(written) = 2
    /\ Cardinality(kclients) = 1
    /\ Cardinality(transactions) = 1

\* C17: with neither a max count nor a max age configured no transaction is
\* ever deleted: every stored transaction is still stored after any step.
C17_NoLimitNoDelete ==
    [][(max_transactions = 0 /\ max_transaction_age = 0)
         => \A r \in transactions : \E q \in transactions' :
               /\ q.pk = r.pk /\ q.client = r.client /\ q.server = r.server
               /\ q.request_ts = r.request_ts]_vars

\* no limit configured: two transactions of one pair are stored
C17_Witness ==
    /\ max_transactions = 0
    /\ max_transaction_age = 0
    /\ consumed = 2
    /\ Cardinality(kclients) = 1
    /\ Cardinality(transactions) = 2

C19_ClientsNeverShrink ==
    [][/\ \A i \in DOMAIN clients :
             i \in DOMAIN clients' /\ Key(clients'[i]) = Key(clients[i])
       /\ kclients \subseteq kclients']_vars

\* a transaction that was written has been deleted by the retention and the
\* row of its client is still stored
C19_Witness ==
    \E w \in written :
        /\ \A t \in transactions : t.client # w.client \/ t.request_ts # w.request_ts
        /\ \E c \in kclients : c.pk = w.client

\* C20: every transaction row references exactly one stored client row and
\* exactly one stored server row.
C20_TransactionHasClient ==
    \A t \in transactions :
        /\ Cardinality({c \in kclients : c.pk = t.client}) = 1
        /\ Cardinality({sv \in servers : sv.pk = t.server}) = 1

\* transactions of two clients are stored, none was deleted
C20_Witness ==
    /\ max_transactions = 0
    /\ Cardinality(kclients) = 2
    /\ Cardinality(transactions) = 2

\* C21: the queue between the handler and the worker never holds more items
\* than its capacity, the sentinel of the teardown counted as an item.
C21_QueueBounded == Len(queue) <= MaxSize

\* the queue is at its capacity and the sentinel is one of the items
C21_Witness ==
    /\ Len(queue) = MaxSize
    /\ \E i \in DOMAIN queue : queue[i] = Sentinel

\* row q is row r, but for the columns an event of this stage may write
SameButFor(q, r, stage) ==
    IF stage = "pre" THEN [q EXCEPT !.last_request = r.last_request] = r
    ELSE IF stage = "post" THEN [q EXCEPT !.last_response = r.last_response] = r
    ELSE q = r

\* C28: a pre event writes nothing but the request columns of its client's
\* row and a post event nothing but the response columns; a row the event
\* creates has the columns of the other kind null; every other row is as it was.
C28_WritesOnlyItsFields ==
    [][\A fault \in AllFaults :
          (WorkerProcAt(fault) /\ item.kind = "event"
             /\ Bundles[item.bundle].client_id.present)
          => /\ Len(clients') >= Len(clients)
             /\ \A i \in DOMAIN clients :
                   IF Key(clients[i]) = TupleOf(item.bundle)
                   THEN SameButFor(clients'[i], clients[i], item.stage)
                   ELSE clients'[i] = clients[i]
             /\ \A i \in DOMAIN clients' \ DOMAIN clients :
                   /\ Key(clients'[i]) = TupleOf(item.bundle)
                   /\ item.stage # "post" => clients'[i].last_response = NULL
                   /\ item.stage # "pre" => clients'[i].last_request = NULL]_vars

\* a pre event created the second row of the table: its request is set, its
\* response is null, and the first row has neither
C28_Witness ==
    /\ Len(clients) = 2
    /\ clients[1].last_request = NULL /\ clients[1].last_response = NULL
    /\ clients[2].last_request # NULL /\ clients[2].last_response = NULL

\* C29: process_message is atomic: when one of its steps fails for a message,
\* the tables are what they were before the message.
C29_KafkaAtomic ==
    \A m \in Messages, fault \in KafkaFaults :
        (variant = "kafka" /\ consumed < MaxMsg)
        => LET after == process_message(m, fault, Store)
           IN  after.outcome = "raised"
               => /\ after.servers = servers
                  /\ after.kclients = kclients
                  /\ after.transactions = transactions

\* the value of a lower-case hexadecimal digit, -1 for any other character
HexVal(c) == IF c \in 48..57 THEN c - 48 ELSE IF c \in 97..102 THEN c - 87 ELSE 0 - 1

\* text is the printable form of the octets b: b itself when every octet is
\* ASCII, otherwise "0x" and two lower-case hexadecimal digits per octet
PrintableOf(b, text) ==
    IF \A i \in DOMAIN b : b[i] <= 127 THEN text = b
    ELSE /\ Len(text) = 2 + 2 * Len(b)
         /\ text[1] = 48 /\ text[2] = 120
         /\ \A i \in DOMAIN b :
               /\ HexVal(text[2 * i + 1]) >= 0
               /\ HexVal(text[2 * i + 2]) >= 0
               /\ 16 * HexVal(text[2 * i + 1]) + HexVal(text[2 * i + 2]) = b[i]

\* text without its first n characters
Drop(text, n) == [i \in 1..(Len(text) - n) |-> text[i + n]]

\* C25: a raw interface-id of ASCII octets is rendered unchanged and any
\* other one as "0x" and its hexadecimal form; a remote-id is rendered the
\* same way behind "enterprise_number:"; every code path renders the same
\* octets to the same string.
C25_Rendering ==
    (rendered.by # "none" /\ rendered.ids.ok) =>
        /\ raw.interface_id.present =>
              PrintableOf(raw.interface_id.interface_id, rendered.ids.interface_id)
        /\ raw.remote_id.present =>
              /\ Len(rendered.ids.remote_id) >= 3
              /\ SubSeq(rendered.ids.remote_id, 1, 3) = <<49, 50, 58>>
              /\ PrintableOf(raw.remote_id.remote_id, Drop(rendered.ids.remote_id, 3))
        /\ \A v \in Workers :
              get_identifiers(v, raw).ok =>
                  /\ get_identifiers(v, raw).interface_id = rendered.ids.interface_id
                  /\ get_identifiers(v, raw).remote_id = rendered.ids.remote_id
        /\ get_transaction_info(raw).interface_id = rendered.ids.interface_id
        /\ get_transaction_info(raw).remote_id = rendered.ids.remote_id

\* the Kafka path has rendered a remote-id that mixes ASCII and other octets
C25_Witness ==
    /\ rendered.by = "kafka" /\ rendered.ids.ok
    /\ raw.interface_id.present /\ raw.remote_id.present
    /\ raw.remote_id.remote_id = <<48, 221, 120>>
    /\ rendered.ids.interface_id = <<48, 120, 51, 48, 100, 100, 55, 56>>

\* C26: no raw interface-id of ASCII octets is rendered to the string that
\* the hexadecimal fallback makes of a raw interface-id with other octets.
C26_Unambiguous ==
    (/\ rendered.by # "none" /\ rendered.ids.ok
     /\ raw.interface_id.present
     /\ \E i \in DOMAIN raw.interface_id.interface_id :
            raw.interface_id.interface_id[i] > 127)
        => \A b \in RawValues :
              (\A i \in DOMAIN b : b[i] <= 127)
                  => get_identifiers(rendered.by,
                                     RelayedBundle(1, InterfaceIdOption(b), NoOption)
                                    ).interface_id # rendered.ids.interface_id

\* C27: a message with a link-layer client-id that has no relay hop, or
\* whose nearest relay lacks the interface-id or the remote-id, is extracted
\* without an error and the missing identifier is the empty string.
C27_NoRelayNoError ==
    (rendered.by # "none" /\ raw.client_id.present /\ raw.client_id.duid_type = 3) =>
        /\ rendered.ids.ok
        /\ (raw.hops = 0 \/ ~raw.interface_id.present) => rendered.ids.interface_id = <<>>
        /\ (raw.hops = 0 \/ ~raw.remote_id.present) => rendered.ids.remote_id = <<>>

\* C22: at most one worker holds a connection to the store file at any
\* time, a second handler for the same file being constructed or not.
C22_OneWriter == ~(HoldsConnection(worker_pc) /\ HoldsConnection(worker2_pc))

\* C24: running __del__ a second time changes nothing: no step of the
\* second run puts anything on the queue or writes to the log.
C24_SecondTeardownNoOp ==
    [][(del_again' /\ del_pc' # del_pc)
         => (queue' = queue /\ accepted' = accepted /\ log' = log)]_vars

\* how often x occurs in the sequence q
Count(q, x) == Cardinality({i \in DOMAIN q : q[i] = x})

\* the events the worker has handled, has in hand or still finds queued
Taken ==
    LET inhand == IF item = NoItem THEN <<>> ELSE <<item.id>>
        queued == [i \in DOMAIN queue |-> queue[i].id]
    IN  SelectSeq(handled \o inhand \o queued, LAMBDA id : id # Sentinel.id)

\* C23: with two threads calling pre() and post() in any interleaving,
\* every event the queue accepted is taken by the worker exactly once: it
\* is handled, in hand or still queued once, never twice and never gone,
\* and the worker takes nothing that was not accepted.
C23_ExactlyOnce ==
    LET events == SelectSeq(accepted, LAMBDA id : id # Sentinel.id)
    IN  /\ \A id \in Range(events) \cup Range(Taken) :
              Count(events, id) = 1 /\ Count(Taken, id) = 1
        /\ \A i, j \in DOMAIN handled :
              (Count(events, handled[i]) = 1 /\ i < j) =>
                  \E k, l \in DOMAIN events :
                      k < l /\ events[k] = handled[i] /\ events[l] = handled[j]

\* the second thread's pre() came between the first thread's pre() and
\* post(), and the worker has handled events of both threads
C23_Witness ==
    /\ Len(accepted) >= 3
    /\ accepted[1] = Id(1, "pre")
    /\ accepted[2] = Id(FirstTxn2, "pre")
    /\ Id(1, "post") \in Range(handled)
    /\ Id(FirstTxn2, "pre") \in Range(handled)

\* C30: a worker started on a store that is already initialised raises no
\* error, leaves the rows and the columns as it found them and leaves the
\* schema version at 1.
C30_StartupIdempotent ==
    (startup.pc \in {"created", "versioned", "migrated", "versionset", "running", "failed"}
       /\ startup.before.columns # {})
        => /\ startup.pc # "failed"
           /\ store.columns = startup.before.columns
           /\ startup.pc # "running" => store.rows = startup.before.rows
           /\ startup.pc = "running" => store.user_version = 1

\* C35: in the worker's clients table a row whose last-response fields are
\* set has its last-request fields set too, whatever events were dropped.
C35_ResponseImpliesRequest ==
    \A i \in DOMAIN clients :
        clients[i].last_response # NULL => clients[i].last_request # NULL

\* C36: handling an event whose stage is neither 'pre' nor 'post' leaves the
\* clients table as it was: no row is inserted, no field is written.
C36_OtherStageNoWrite ==
    [][\A fault \in AllFaults :
          (WorkerProcAt(fault) /\ item.kind = "event"
             /\ item.stage \notin {"pre", "post"})
          => clients' = clients]_vars

\* C33 as stated: with a max count N >= 1, after process_message returned
\* normally for an event the transaction of the event's client, server and
\* request timestamp is stored, in whatever order the events arrive.
C33_WrittenIsPresent ==
    \A m \in Messages :
        (Consuming(m) /\ max_transactions >= 1)
        => LET after == process_message(m, "none", Store)
           IN  m.timestamp_in \in PairTs(after.transactions, ClientOf(after.kclients, m),
                                         ServerOf(after.servers, m))

\* C33 amended: with a max count N >= 1, after process_message returned
\* normally for an event its transaction is stored exactly when fewer than N
\* stored transactions of the pair have a later request timestamp; an event
\* that arrives after N later ones is written and deleted in the same call.
C33_PresentIfAmongNewest ==
    \A m \in Messages :
        (Consuming(m) /\ max_transactions >= 1)
        => LET after == process_message(m, "none", Store)
               c == ClientOf(after.kclients, m)
               sv == ServerOf(after.servers, m)
               later == {t \in PairTs(transactions, c, sv) : t > m.timestamp_in}
           IN  /\ after.outcome = "done"
               /\ m.timestamp_in \in PairTs(after.transactions, c, sv)
                     <=> Cardinality(later) < max_transactions

\* max count 1: of two transactions written for one pair the second one is
\* the later one and is what is stored
C33_Witness ==
    /\ max_transactions = 1
    /\ Cardinality(written) = 2
    /\ Cardinality(kclients) = 1
    /\ \E t \in transactions :
          /\ transactions = {t} /\ t.pk = 2
          /\ \A w \in written : w.request_ts <= t.request_ts

\* the latest request timestamp written for a pair
LatestWritten(c, sv) ==
    CHOOSE t \in PairTs(written, c, sv) : \A u \in PairTs(written, c, sv) : u <= t

\* C34: with a max count N >= 1 and any max age, a pair that has had a
\* transaction written keeps the transaction with its latest request
\* timestamp: the retention never deletes it, so the pair is never empty.
C34_NewestKept ==
    max_transactions >= 1
        => \A w \in written :
              LatestWritten(w.client, w.server)
                  \in PairTs(transactions, w.client, w.server)

\* max count 1 and a max age: two events were written for one pair, the
\* latest of them first, and that one is what is stored
C34_Witness ==
    /\ max_transactions = 1
    /\ max_transaction_age # 0
    /\ Cardinality(kclients) = 1
    /\ Cardinality(written) >= 2
    /\ \E t \in transactions : transactions = {t} /\ t.pk = 1

\* what the extractor of code path v makes of a message
Extraction(v, b) == IF v = "kafka" THEN get_transaction_info(b) ELSE get_identifiers(v, b)

\* C37: for every message the three extractors agree: all of them fail, or
\* all of them return the same duid, interface_id and remote_id.
C37_ExtractorsAgree ==
    rendered.by # "none" =>
        \A v \in Generations :
            LET other == Extraction(v, raw)
            IN  /\ other.ok = rendered.ids.ok
                /\ other.ok =>
                      /\ other.duid = rendered.ids.duid
                      /\ other.interface_id = rendered.ids.interface_id
                      /\ other.remote_id = rendered.ids.remote_id

Accessors == {"duid_ll", "duid_ll_org", "request_ll_mac", "request_ll_mac_org"}

\* C31: a display accessor never raises: when a stage of its chain has no
\* value or fails, it returns None.
C31_AccessorsReturnNone == result.by \in Accessors => ~result.out.raised

\* the text ends in ':' and one or more digits
EndsInPort(text) ==
    \E k \in 1..(Len(text) - 1) :
        text[k] = 58 /\ \A i \in (k + 1)..Len(text) : text[i] \in 48..57

\* C32: _fix_broker returns a broker that ends in ':<digits>' unchanged and
\* appends ':9092' to a broker that has no port.
C32_PortOnlyWhenMissing ==
    result.by = "fix_broker" =>
        result.out.value = IF EndsInPort(arg.broker) THEN arg.broker
                           ELSE arg.broker \o <<58, 57, 48, 57, 50>>

\* C38: once signal_stop has set the stopping flag, handle() eventually
\* returns, whatever the rate at which messages arrive and also when the
\* signal arrives during the back-off
C38_StopReturns == (cmd.pc # "none" /\ cmd.stopping) ~> (cmd.pc = "returned")

====
